---- MODULE Spec2Model ----
(***************************************************************************)
(* The order service (app/order-service/src/main.py): the in-memory order  *)
(* store orders_db, the HTTP handlers that create, read, cancel and        *)
(* override orders, and the background tasks process_order,                *)
(* delete_order_after_delay and notify_user_service.  All coroutines run   *)
(* on one asyncio event loop, so the code between two awaits is one        *)
(* atomic step; every action below is one such step.  A handler is an      *)
(* operator from the state and the request to its HTTP response and the    *)
(* store it leaves; the action of the handler installs that result.  A     *)
(* request that the handler rejects before it changes anything leaves the  *)
(* state as it is (a stuttering step), so the actions are guarded by the   *)
(* handler's early exits.                                                   *)
(***************************************************************************)
EXTENDS Integers, Sequences, FiniteSets, Bags, TLC

\* Bounds of the model.
MaxOrders == 2          \* orders ever created (uuid4 ids are never reused)
MaxRequests == 3        \* requests that change the store (create, cancel, override)
MaxItems == 2           \* items ever added to carts (uuid4 item ids are never reused)
MaxCheckouts == 2       \* checkout requests that get past the identity check

None == "None"

\* ORDER_STATUSES (keys), main.py:60-66
ORDER_STATUSES == {"CREATED", "PROCESSING", "SHIPPING", "DELIVERED", "CANCELLED"}

OrderIds == 1..MaxOrders

\* Request bodies of POST /orders/ (OrderCreate, main.py:78-80): items and total.
Widget == [product_id |-> "p1", name |-> "Widget", price |-> 10, quantity |-> 2]
Bodies == {[items |-> <<>>, total |-> 0], [items |-> <<Widget>>, total |-> 20]}

\* Status values a client may send to PUT /orders/{id}/status.
StatusInputs == ORDER_STATUSES \cup {"BOGUS", "created", ""}

\* Credentials a request may carry: the X-User-ID header and the
\* Authorization header as its whitespace-split parts (<<>> when absent).
JwtAlice == "h.alice.s"
Creds == {[x_user_id |-> "alice", authorization |-> <<>>],
          [x_user_id |-> "bob", authorization |-> <<>>],
          [x_user_id |-> None, authorization |-> <<"Bearer", JwtAlice>>],
          [x_user_id |-> None, authorization |-> <<>>]}

\* Two more tokens: one that does not decode under SECRET_KEY and one that
\* decodes to a payload without "sub"
BadToken == "x.y.z"
NoSubToken == "h.nosub.s"

\* Every shape of credentials: Creds, X-User-ID together with an
\* Authorization header (well formed or not), X-User-ID holding a token, an
\* empty X-User-ID, other bearer tokens, another spelling of the scheme, and
\* Authorization headers that are not `Bearer <token>`
AllCreds ==
    Creds \cup
    {[x_user_id |-> "bob", authorization |-> <<"Bearer", JwtAlice>>],
     [x_user_id |-> "bob", authorization |-> <<"Basic", "abc">>],
     [x_user_id |-> JwtAlice, authorization |-> <<>>],
     [x_user_id |-> "", authorization |-> <<"Bearer", JwtAlice>>],
     [x_user_id |-> "", authorization |-> <<>>],
     [x_user_id |-> None, authorization |-> <<"bearer", JwtAlice>>],
     [x_user_id |-> None, authorization |-> <<"Bearer", BadToken>>],
     [x_user_id |-> None, authorization |-> <<"Bearer", NoSubToken>>],
     [x_user_id |-> None, authorization |-> <<"Bearer", "opaque">>],
     [x_user_id |-> None, authorization |-> <<"Basic", "abc">>],
     [x_user_id |-> None, authorization |-> <<"Bearer">>],
     [x_user_id |-> None, authorization |-> <<"Bearer", JwtAlice, "x">>]}

\* str.count('.') on the strings of the model
CountDots(s) == IF s \in {JwtAlice, BadToken, NoSubToken} THEN 2 ELSE 0

\* jwt.decode(token, SECRET_KEY, algorithms=[ALGORITHM]): the payload, or a JWTError
JwtDecode(token) ==
    IF token = JwtAlice THEN [ok |-> TRUE, sub |-> "alice"]
    ELSE IF token = NoSubToken THEN [ok |-> TRUE, sub |-> None]
    ELSE [ok |-> FALSE, sub |-> None]

\* str.lower() on the authorization schemes of the model
Lower(s) == IF s \in {"Bearer", "bearer", "BEARER"} THEN "bearer" ELSE s

\* get_user_id rejecting a token that does not decode to a subject
get_user_id_Strict(cred) ==
    IF cred.x_user_id \notin {None, ""} THEN [code |-> 200, user_id |-> cred.x_user_id]
    ELSE IF cred.authorization = <<>> THEN [code |-> 401, user_id |-> None]
    ELSE IF Len(cred.authorization) # 2 \/ Lower(cred.authorization[1]) # "bearer"
         THEN [code |-> 401, user_id |-> None]
    ELSE LET token == cred.authorization[2]
             payload == JwtDecode(token)
         IN IF payload.ok /\ payload.sub # None
            THEN [code |-> 200, user_id |-> payload.sub]
            ELSE [code |-> 401, user_id |-> None]

\* get_user_id, main.py:92-119: the resolved identity, or the 401 it raises
\* (`if x_user_id:` is false for a missing and for an empty header)
get_user_id(cred) ==
    IF cred.x_user_id \notin {None, ""} THEN [code |-> 200, user_id |-> cred.x_user_id]
    ELSE IF cred.authorization = <<>> THEN [code |-> 401, user_id |-> None]
    ELSE IF Len(cred.authorization) # 2 \/ Lower(cred.authorization[1]) # "bearer"
         THEN [code |-> 401, user_id |-> None]
    ELSE LET token == cred.authorization[2]
             payload == JwtDecode(token)
         IN IF payload.ok /\ payload.sub # None
            THEN [code |-> 200, user_id |-> payload.sub]
            ELSE [code |-> 200, user_id |-> token]

VARIABLES
    orders_db,     \* order id -> order record (the dict orders_db, main.py:69)
    clock,         \* order id -> the value datetime.now() returns next, counted in
                   \* the timestamps taken for that order (timestamps of different
                   \* orders are never compared)
    next_id,       \* the next fresh uuid4
    pc,            \* order id -> position of its process_order task
    del_task,      \* order id -> state of its delete_order_after_delay task
    tasks,         \* bag of notify_user_service tasks not yet run: <<id, status>>
    proc_writes,   \* order id -> statuses process_order wrote, in order
    proc_posts,    \* order id -> statuses process_order POSTed to the user service
    cancel_at,     \* order id -> the first cancel request on it that reached the
                   \* status check: where its processor stood, and the status code
    found_cancelled, \* order id -> whether a check of its process_order has
                   \* found the order CANCELLED (or gone) so far
    requests,      \* number of requests that changed the store so far
    failed_posts,  \* watched order id -> number of POSTs of its process_order that
                   \* did not get a 2xx response (the outcomes are recorded for
                   \* the orders in its domain only)
    carts_db,      \* cart service: user id -> cart (the dict carts_db,
                   \* cart-service main.py:28); the items of a cart in the
                   \* order of their insertion
    next_item,     \* cart service: the next fresh uuid4 of a cart item
    checkouts      \* cart service: checkout request -> where its handler stands
                   \* and what it holds

\* The state of the cart service
cart_vars == <<carts_db, next_item, checkouts>>

vars == <<orders_db, clock, next_id, pc, del_task, tasks, proc_writes, proc_posts,
          cancel_at, found_cancelled, requests, failed_posts, cart_vars>>

NoCancel == [pc |-> "none", code |-> 0]

CheckoutIds == 1..MaxCheckouts

\* A checkout request that has not been made
NoCheckout ==
    [pc |-> "none", user_id |-> None, authorization |-> <<>>, order_items |-> <<>>,
     total |-> 0, answer |-> None, code |-> 0]

\* The state after the modules are loaded: no order, no task, no cart
Start ==
    /\ carts_db = [u \in {} |-> <<>>]
    /\ next_item = 1
    /\ checkouts = [c \in CheckoutIds |-> NoCheckout]
    /\ orders_db = <<>>
    /\ clock = [o \in OrderIds |-> 1]
    /\ next_id = 1
    /\ pc = [o \in OrderIds |-> "none"]
    /\ del_task = [o \in OrderIds |-> "none"]
    /\ tasks = EmptyBag
    /\ proc_writes = [o \in OrderIds |-> <<>>]
    /\ proc_posts = [o \in OrderIds |-> <<>>]
    /\ cancel_at = [o \in OrderIds |-> NoCancel]
    /\ found_cancelled = [o \in OrderIds |-> FALSE]
    /\ requests = 0

Init == Start /\ failed_posts = <<>>

\* `order_id in orders_db`
InDb(o) == o \in DOMAIN orders_db

\* WriteStatus without the refresh of updated_at
WriteStatusStale(o, s) ==
    [orders_db EXCEPT ![o] = [@ EXCEPT !.status = s]]

\* WriteStatus setting the status and updated_at of every order in the store
WriteStatusAll(o, s) ==
    [x \in DOMAIN orders_db |->
        [orders_db[x] EXCEPT !.status = s, !.updated_at = clock[o]]]

\* orders_db with the order's status and updated_at set (order["status"] = s;
\* order["updated_at"] = datetime.now().isoformat())
WriteStatus(o, s) ==
    [orders_db EXCEPT ![o] = [@ EXCEPT !.status = s, !.updated_at = clock[o]]]

\* What a handler returns and leaves behind: the status code, the status its
\* body names (None when there is none), the orders of its body (ids), the
\* store and the notification tasks after it.
Result(code, detail, orders, db, ts) ==
    [code |-> code, detail |-> detail, orders |-> orders, db |-> db, tasks |-> ts]

\* A handler that raises HTTPException(code) before it changes anything
Raise(code, detail) == Result(code, detail, {}, orders_db, tasks)

\* create_order, main.py:239-273, as the order with id order_id
create_order(order_id, cred, body) ==
    LET who == get_user_id(cred) IN
    IF who.code # 200 THEN Raise(who.code, None)
    ELSE LET payload == JwtDecode(who.user_id)
             user_id == IF CountDots(who.user_id) = 2 /\ payload.ok /\ payload.sub # None
                        THEN payload.sub ELSE who.user_id
             new_order == [id |-> order_id, user_id |-> user_id, items |-> body.items,
                           total |-> body.total, status |-> "CREATED",
                           created_at |-> clock[order_id], updated_at |-> clock[order_id]]
         IN Result(200, "CREATED", {order_id},
                   [o \in DOMAIN orders_db \cup {order_id} |->
                       IF o = order_id THEN new_order ELSE orders_db[o]],
                   tasks)

\* POST /orders/ in the order service: the handler runs, and on success
\* process_order is added to the background tasks (main.py:272)
CreateOrderFor(cred, body) ==
    /\ next_id \in OrderIds
    /\ requests < MaxRequests
    /\ LET r == create_order(next_id, cred, body) IN
       /\ r.code = 200
       /\ orders_db' = r.db
       /\ tasks' = r.tasks
    /\ requests' = requests + 1
    /\ pc' = [pc EXCEPT ![next_id] = "start"]
    /\ clock' = [clock EXCEPT ![next_id] = @ + 1]
    /\ next_id' = next_id + 1
    /\ UNCHANGED <<del_task, proc_writes, proc_posts, cancel_at, found_cancelled, failed_posts>>

\* POST /orders/ sent by a client of the order service
CreateOrder(cred, body) == CreateOrderFor(cred, body) /\ UNCHANGED cart_vars

\* MayTransition without the check for CANCELLED
MayTransitionUnguarded(o) == InDb(o)

\* The guard of each transition of process_order, main.py:134, 143, 155
MayTransition(o) == InDb(o) /\ orders_db[o].status # "CANCELLED"

\* NotifyPosts with the presence check inverted
NotifyPostsInverted(o) == ~InDb(o)

\* notify_user_service, main.py:188-214, up to its POST: whether the call
\* attempts the POST at all (it returns at once when the order is gone)
NotifyPosts(o) == InDb(o)

\* Outcomes of the POST to the user service: a 2xx response, any other
\* response, or an httpx.RequestError (caught and logged, main.py:211-214)
NotifyOutcomes == {"2xx", "non2xx", "RequestError"}

\* process_order, main.py:121-131: the task starts, finds its order and sleeps
ProcStart(o) ==
    /\ pc[o] = "start"
    /\ pc' = [pc EXCEPT ![o] = IF InDb(o) THEN "sleep1" ELSE "done"]
    /\ UNCHANGED <<orders_db, clock, next_id, del_task, tasks, proc_writes, proc_posts,
                   cancel_at, found_cancelled, requests, failed_posts,
                   cart_vars>>

\* One sleep-then-transition block of process_order (main.py:133-140, 142-149,
\* 153-174): the sleep ends, the guard is evaluated and, when it holds, the
\* status and updated_at are written and notify_user_service runs up to its POST.
ProcTransition(o, from, status, notifying, skipped) ==
    /\ pc[o] = from
    /\ IF MayTransition(o)
       THEN /\ orders_db' = WriteStatus(o, status)
            /\ clock' = [clock EXCEPT ![o] = @ + 1]
            /\ proc_writes' = [proc_writes EXCEPT ![o] = Append(@, status)]
            /\ IF NotifyPosts(o)
               THEN /\ proc_posts' = [proc_posts EXCEPT ![o] = Append(@, status)]
                    /\ pc' = [pc EXCEPT ![o] = notifying]
               ELSE /\ proc_posts' = proc_posts
                    /\ pc' = [pc EXCEPT ![o] = skipped]
       ELSE /\ pc' = [pc EXCEPT ![o] = skipped]
            /\ UNCHANGED <<orders_db, clock, proc_writes, proc_posts>>
    /\ found_cancelled' = [found_cancelled EXCEPT ![o] = @ \/ ~MayTransition(o)]
    /\ UNCHANGED <<next_id, del_task, tasks, cancel_at, requests, failed_posts,
                   cart_vars>>

\* ProcShipping without the check for CANCELLED in its guard
ProcShippingUnchecked(o) ==
    /\ pc[o] = "sleep2"
    /\ InDb(o)
    /\ orders_db' = WriteStatus(o, "SHIPPING")
    /\ clock' = [clock EXCEPT ![o] = @ + 1]
    /\ proc_writes' = [proc_writes EXCEPT ![o] = Append(@, "SHIPPING")]
    /\ proc_posts' = [proc_posts EXCEPT ![o] = Append(@, "SHIPPING")]
    /\ pc' = [pc EXCEPT ![o] = "notify2"]
    /\ UNCHANGED <<next_id, del_task, tasks, cancel_at, found_cancelled, requests, failed_posts,
                   cart_vars>>

\* ProcDelivered writing the status of the block before it
ProcDeliveredWritesShipping(o) ==
    ProcTransition(o, "sleep3", "SHIPPING", "notify3", "done")

\* ProcProcessing sending the notification before the check and the write
ProcProcessingNotifiesFirst(o) ==
    /\ pc[o] = "sleep1"
    /\ InDb(o)
    /\ proc_posts' = [proc_posts EXCEPT ![o] = Append(@, "PROCESSING")]
    /\ pc' = [pc EXCEPT ![o] = "notify1"]
    /\ IF MayTransition(o)
       THEN /\ orders_db' = WriteStatus(o, "PROCESSING")
            /\ clock' = [clock EXCEPT ![o] = @ + 1]
            /\ proc_writes' = [proc_writes EXCEPT ![o] = Append(@, "PROCESSING")]
       ELSE UNCHANGED <<orders_db, clock, proc_writes>>
    /\ found_cancelled' = [found_cancelled EXCEPT ![o] = @ \/ ~MayTransition(o)]
    /\ UNCHANGED <<next_id, del_task, tasks, cancel_at, requests, failed_posts,
                   cart_vars>>

\* main.py:133-140
ProcProcessing(o) == ProcTransition(o, "sleep1", "PROCESSING", "notify1", "sleep2")
\* main.py:142-149
ProcShipping(o) == ProcTransition(o, "sleep2", "SHIPPING", "notify2", "sleep3")
\* main.py:151-174
ProcDelivered(o) == ProcTransition(o, "sleep3", "DELIVERED", "notify3", "done")

\* failed_posts after a POST for order o ended with the given outcome
RecordOutcome(o, outcome) ==
    IF o \in DOMAIN failed_posts /\ outcome # "2xx"
    THEN [failed_posts EXCEPT ![o] = @ + 1]
    ELSE failed_posts

\* ProcNotified letting an httpx.RequestError end the task
ProcNotifiedRaises(o, outcome) ==
    /\ pc[o] \in {"notify1", "notify2"}
    /\ outcome \in NotifyOutcomes
    /\ failed_posts' = RecordOutcome(o, outcome)
    /\ pc' = [pc EXCEPT ![o] = IF outcome = "RequestError" THEN "done"
                               ELSE IF pc[o] = "notify1" THEN "sleep2" ELSE "sleep3"]
    /\ UNCHANGED <<orders_db, clock, next_id, del_task, tasks, proc_writes, proc_posts,
                   cancel_at, found_cancelled, requests,
                   cart_vars>>

\* ProcNotified running the block it has just notified once more
ProcNotifiedRepeats(o, outcome) ==
    /\ pc[o] \in {"notify1", "notify2"}
    /\ outcome \in NotifyOutcomes
    /\ failed_posts' = RecordOutcome(o, outcome)
    /\ pc' = [pc EXCEPT ![o] = IF pc[o] = "notify1" THEN "sleep1" ELSE "sleep2"]
    /\ UNCHANGED <<orders_db, clock, next_id, del_task, tasks, proc_writes, proc_posts,
                   cancel_at, found_cancelled, requests,
                   cart_vars>>

\* ProcNotified putting the status of before the transition back when the
\* POST fails
ProcNotifiedRollsBack(o, outcome) ==
    /\ pc[o] \in {"notify1", "notify2"}
    /\ outcome \in NotifyOutcomes
    /\ failed_posts' = RecordOutcome(o, outcome)
    /\ pc' = [pc EXCEPT ![o] = IF pc[o] = "notify1" THEN "sleep2" ELSE "sleep3"]
    /\ orders_db' = IF outcome = "RequestError" /\ InDb(o)
                    THEN WriteStatus(o, IF pc[o] = "notify1" THEN "CREATED" ELSE "PROCESSING")
                    ELSE orders_db
    /\ UNCHANGED <<clock, next_id, del_task, tasks, proc_writes, proc_posts,
                   cancel_at, found_cancelled, requests,
                   cart_vars>>

\* The POST of a transition's notification ends (main.py:206-214): whatever
\* the outcome, process_order goes on to its next sleep.
ProcNotified(o, outcome) ==
    /\ pc[o] \in {"notify1", "notify2"}
    /\ outcome \in NotifyOutcomes
    /\ failed_posts' = RecordOutcome(o, outcome)
    /\ pc' = [pc EXCEPT ![o] = IF pc[o] = "notify1" THEN "sleep2" ELSE "sleep3"]
    /\ UNCHANGED <<orders_db, clock, next_id, del_task, tasks, proc_writes, proc_posts,
                   cancel_at, found_cancelled, requests,
                   cart_vars>>

\* main.py:174-175: the DELIVERED notification ends and the deferred deletion
\* is added to the background tasks; it starts when process_order returns.
ProcScheduleDelete(o, outcome) ==
    /\ pc[o] = "notify3"
    /\ outcome \in NotifyOutcomes
    /\ failed_posts' = RecordOutcome(o, outcome)
    /\ pc' = [pc EXCEPT ![o] = "done"]
    /\ del_task' = [del_task EXCEPT ![o] = "sleeping"]
    /\ UNCHANGED <<orders_db, clock, next_id, tasks, proc_writes, proc_posts,
                   cancel_at, found_cancelled, requests,
                   cart_vars>>

\* delete_order_after_delay removing the order only while it is DELIVERED
delete_order_if_delivered(o) ==
    /\ del_task[o] = "sleeping"
    /\ del_task' = [del_task EXCEPT ![o] = "done"]
    /\ orders_db' = IF InDb(o) /\ orders_db[o].status = "DELIVERED"
                    THEN [x \in DOMAIN orders_db \ {o} |-> orders_db[x]]
                    ELSE orders_db
    /\ UNCHANGED <<clock, next_id, pc, tasks, proc_writes, proc_posts, cancel_at, found_cancelled,
                   requests, failed_posts,
                   cart_vars>>

\* delete_order_after_delay, main.py:177-186: the delay ends
delete_order_after_delay(o) ==
    /\ del_task[o] = "sleeping"
    /\ del_task' = [del_task EXCEPT ![o] = "done"]
    /\ orders_db' = IF InDb(o)
                    THEN [x \in DOMAIN orders_db \ {o} |-> orders_db[x]]
                    ELSE orders_db
    /\ UNCHANGED <<clock, next_id, pc, tasks, proc_writes, proc_posts, cancel_at, found_cancelled,
                   requests, failed_posts,
                   cart_vars>>

\* A notify_user_service task started by cancel_order (asyncio.create_task,
\* main.py:346) or update_order_status (background task, main.py:316) runs:
\* it POSTs when the order is still in the store; every outcome is swallowed.
NotifyTask(o, status, outcome) ==
    /\ BagIn(<<o, status>>, tasks)
    /\ outcome \in NotifyOutcomes
    /\ tasks' = tasks (-) SetToBag({<<o, status>>})
    /\ UNCHANGED <<orders_db, clock, next_id, pc, del_task, proc_writes, proc_posts,
                   cancel_at, found_cancelled, requests, failed_posts,
                   cart_vars>>

\* CancelRejected forgetting one of the two terminal statuses
CancelRejectedOnlyCancelled(status) == status = "CANCELLED"

CancelRejectedOnlyDelivered(status) == status = "DELIVERED"

\* The status check of cancel_order, main.py:335
CancelRejected(status) == status \in {"DELIVERED", "CANCELLED"}

\* AccessDenied with the negation of the admin flag forgotten
AccessDeniedAdminOnly(o, user_id, admin) == orders_db[o].user_id # user_id /\ admin

\* The ownership check of get_order and cancel_order, main.py:287, 331
AccessDenied(o, user_id, admin) == orders_db[o].user_id # user_id /\ ~admin

\* cancel_order, main.py:319-347
cancel_order(o, cred, admin) ==
    LET who == get_user_id(cred) IN
    IF who.code # 200 THEN Raise(who.code, None)
    ELSE IF ~InDb(o) THEN Raise(404, None)
    ELSE IF AccessDenied(o, who.user_id, admin) THEN Raise(403, None)
    ELSE IF CancelRejected(orders_db[o].status) THEN Raise(400, orders_db[o].status)
    ELSE Result(200, "CANCELLED", {o}, WriteStatus(o, "CANCELLED"),
                tasks (+) SetToBag({<<o, "CANCELLED">>}))

\* Whether a cancel request gets as far as the status check of main.py:335
CancelAuthorised(o, cred, admin) ==
    LET who == get_user_id(cred) IN
    who.code = 200 /\ InDb(o) /\ ~AccessDenied(o, who.user_id, admin)

\* PUT /orders/{order_id}/cancel
CancelOrder(o, cred, admin) ==
    LET r == cancel_order(o, cred, admin) IN
    /\ CancelAuthorised(o, cred, admin)
    /\ orders_db' = r.db
    /\ tasks' = r.tasks
    /\ IF r.code = 200
       THEN /\ requests < MaxRequests
            /\ requests' = requests + 1
            /\ clock' = [clock EXCEPT ![o] = @ + 1]
       ELSE UNCHANGED <<requests, clock>>
    /\ cancel_at' = IF cancel_at[o] = NoCancel
                    THEN [cancel_at EXCEPT ![o] = [pc |-> pc[o], code |-> r.code]]
                    ELSE cancel_at
    /\ UNCHANGED <<next_id, pc, del_task, proc_writes, proc_posts, found_cancelled,
                   failed_posts, cart_vars>>

\* update_order_status without the validation of the new status
update_order_status_Unvalidated(o, status, admin) ==
    IF ~admin THEN Raise(403, None)
    ELSE IF ~InDb(o) THEN Raise(404, None)
    ELSE Result(200, status, {o}, WriteStatus(o, status),
                tasks (+) SetToBag({<<o, status>>}))

\* update_order_status looking the order up before it checks the admin flag
update_order_status_LookupFirst(o, status, admin) ==
    IF ~InDb(o) THEN Raise(404, None)
    ELSE IF ~admin THEN Raise(403, None)
    ELSE IF status \notin ORDER_STATUSES THEN Raise(400, None)
    ELSE Result(200, status, {o}, WriteStatus(o, status),
                tasks (+) SetToBag({<<o, status>>}))

\* update_order_status refusing to leave a terminal status
update_order_status_Validated(o, status, admin) ==
    IF ~admin THEN Raise(403, None)
    ELSE IF ~InDb(o) THEN Raise(404, None)
    ELSE IF status \notin ORDER_STATUSES THEN Raise(400, None)
    ELSE IF orders_db[o].status \in {"DELIVERED", "CANCELLED"} THEN Raise(400, None)
    ELSE Result(200, status, {o}, WriteStatus(o, status),
                tasks (+) SetToBag({<<o, status>>}))

\* update_order_status, main.py:293-317
update_order_status(o, status, admin) ==
    IF ~admin THEN Raise(403, None)
    ELSE IF ~InDb(o) THEN Raise(404, None)
    ELSE IF status \notin ORDER_STATUSES THEN Raise(400, None)
    ELSE Result(200, status, {o}, WriteStatus(o, status),
                tasks (+) SetToBag({<<o, status>>}))

\* PUT /orders/{order_id}/status as FastAPI calls the handler for a request
\* with the given credentials: the route declares no Depends(get_user_id)
\* (main.py:293-294), so the credentials never reach update_order_status
put_order_status(o, cred, status, admin) == update_order_status(o, status, admin)

\* PUT /orders/{order_id}/status
SetStatus(o, status, admin) ==
    LET r == update_order_status(o, status, admin) IN
    /\ requests < MaxRequests
    /\ r.code = 200
    /\ orders_db' = r.db
    /\ tasks' = r.tasks
    /\ requests' = requests + 1
    /\ clock' = [clock EXCEPT ![o] = @ + 1]
    /\ UNCHANGED <<next_id, pc, del_task, proc_writes, proc_posts, cancel_at, found_cancelled, failed_posts,
                   cart_vars>>

\* get_order, main.py:275-291
get_order(o, cred, admin) ==
    LET who == get_user_id(cred) IN
    IF who.code # 200 THEN Raise(who.code, None)
    ELSE IF ~InDb(o) THEN Raise(404, None)
    ELSE IF AccessDenied(o, who.user_id, admin) THEN Raise(403, None)
    ELSE Result(200, orders_db[o].status, {o}, orders_db, tasks)

\* GET /orders/{order_id}
GetOrder(o, cred, admin) ==
    LET r == get_order(o, cred, admin) IN
    /\ r.code = 200
    /\ orders_db' = r.db
    /\ tasks' = r.tasks
    /\ UNCHANGED <<clock, next_id, pc, del_task, proc_writes, proc_posts, cancel_at, found_cancelled,
                   requests, failed_posts,
                   cart_vars>>

\* get_orders returning every order to every requester
get_orders_Unfiltered(cred, admin) ==
    LET who == get_user_id(cred) IN
    IF who.code # 200 THEN Raise(who.code, None)
    ELSE Result(200, None, DOMAIN orders_db, orders_db, tasks)

\* get_orders, main.py:225-237: the orders of the response, as their ids
get_orders(cred, admin) ==
    LET who == get_user_id(cred) IN
    IF who.code # 200 THEN Raise(who.code, None)
    ELSE IF admin THEN Result(200, None, DOMAIN orders_db, orders_db, tasks)
    ELSE Result(200, None,
                {o \in DOMAIN orders_db : orders_db[o].user_id = who.user_id},
                orders_db, tasks)

\* GET /orders/
ListOrders(cred, admin) ==
    LET r == get_orders(cred, admin) IN
    /\ r.code = 200
    /\ orders_db' = r.db
    /\ tasks' = r.tasks
    /\ UNCHANGED <<clock, next_id, pc, del_task, proc_writes, proc_posts, cancel_at, found_cancelled,
                   requests, failed_posts,
                   cart_vars>>

\* The steps of the process_order task of one order
ProcStep(o) ==
    \/ ProcStart(o)
    \/ ProcProcessing(o)
    \/ ProcShipping(o)
    \/ ProcDelivered(o)
    \/ \E outcome \in NotifyOutcomes : ProcNotified(o, outcome)
    \/ \E outcome \in NotifyOutcomes : ProcScheduleDelete(o, outcome)

Create == \E cred \in Creds, body \in Bodies : CreateOrder(cred, body)

Get == \E o \in OrderIds, cred \in Creds, admin \in BOOLEAN : GetOrder(o, cred, admin)

List == \E cred \in Creds, admin \in BOOLEAN : ListOrders(cred, admin)

Cancel == \E o \in OrderIds, cred \in Creds, admin \in BOOLEAN : CancelOrder(o, cred, admin)

Override == \E o \in OrderIds, status \in StatusInputs, admin \in BOOLEAN :
                SetStatus(o, status, admin)

Processor == \E o \in OrderIds : ProcStep(o)

DeferredDelete == \E o \in OrderIds : delete_order_after_delay(o)

Notifier == \E o \in OrderIds, status \in ORDER_STATUSES, outcome \in NotifyOutcomes :
                NotifyTask(o, status, outcome)

\* ---- The cart service (app/cart-service/src/main.py) ----

\* The products of the backend, as GET /products/{id} returns them
Products == {"p1", "p2"}
ProductData(product_id) ==
    IF product_id = "p1" THEN [name |-> "Widget", price |-> 10, stock_count |-> 2]
    ELSE [name |-> "Gadget", price |-> 5, stock_count |-> 2]

\* Credentials of the requests to the cart service: X-User-ID alone, or none
CartCreds == {cred \in Creds : cred.authorization = <<>>}

\* Quantities a client may ask for
Quantities == {1, 3}

\* Outcomes of get_product_info (cart-service main.py:128-161): the product,
\* or the HTTPException raised for a 404, another error status or a
\* transport error
ProductOutcomes == {"2xx", "404", "non2xx", "RequestError"}

\* get_user_id of the cart service (a copy of the order service's)
cart_get_user_id(cred) == get_user_id(cred)

\* get_user_cart, cart-service main.py:163-171: carts_db with the cart of
\* the user created when it was not there
get_user_cart(user_id) ==
    [u \in DOMAIN carts_db \cup {user_id} |->
        IF u \in DOMAIN carts_db THEN carts_db[u] ELSE [items |-> <<>>]]

\* The items of the cart of a user in a cart store (none without a cart)
CartItems(db, user_id) == IF user_id \in DOMAIN db THEN db[user_id].items ELSE <<>>

\* calculate_cart_total, cart-service main.py:173-178
RECURSIVE calculate_cart_total(_)
calculate_cart_total(items) ==
    IF items = <<>> THEN 0
    ELSE items[1].total_price + calculate_cart_total(Tail(items))

\* add_to_cart, cart-service main.py:229-265: the status code and the cart
\* store it leaves, given the outcome of get_product_info
add_to_cart(cred, product_id, quantity, outcome) ==
    LET who == cart_get_user_id(cred)
        product == ProductData(product_id)
    IN IF who.code # 200 THEN [code |-> who.code, carts |-> carts_db]
       ELSE IF outcome = "RequestError" THEN [code |-> 503, carts |-> carts_db]
       ELSE IF outcome = "404" THEN [code |-> 404, carts |-> carts_db]
       ELSE IF outcome = "non2xx" THEN [code |-> 503, carts |-> carts_db]
       ELSE IF product.stock_count < quantity THEN [code |-> 400, carts |-> carts_db]
       ELSE LET db == get_user_cart(who.user_id)
                item == [id |-> next_item, product_id |-> product_id,
                         name |-> product.name, price |-> product.price,
                         quantity |-> quantity,
                         total_price |-> product.price * quantity]
            IN [code |-> 200,
                carts |-> [db EXCEPT ![who.user_id].items = Append(@, item)]]

\* POST /cart/items: the handler resumes after get_product_info and puts the
\* item into the cart
AddToCart(cred, product_id, quantity, outcome) ==
    LET r == add_to_cart(cred, product_id, quantity, outcome) IN
    /\ next_item <= MaxItems
    /\ r.code = 200
    /\ carts_db' = r.carts
    /\ next_item' = next_item + 1
    /\ UNCHANGED <<orders_db, clock, next_id, pc, del_task, tasks, proc_writes,
                   proc_posts, cancel_at, found_cancelled, requests, failed_posts, checkouts>>

\* The line items of an order for the items of a cart (cart-service main.py:349)
OrderItems(items) ==
    [i \in 1..Len(items) |->
        [product_id |-> items[i].product_id, name |-> items[i].name,
         price |-> items[i].price, quantity |-> items[i].quantity]]

\* checkout, cart-service main.py:324-353, up to its POST: the identity is
\* resolved, the cart is fetched (and created when missing); an empty cart is
\* refused with 400, otherwise the order is assembled and the POST is sent.
CheckoutStart(c, cred) ==
    LET who == cart_get_user_id(cred)
        db == get_user_cart(who.user_id)
        items == db[who.user_id].items
    IN /\ checkouts[c].pc = "none"
       /\ \A d \in CheckoutIds : d < c => checkouts[d].pc # "none"
       /\ who.code = 200
       /\ carts_db' = db
       /\ checkouts' = [checkouts EXCEPT ![c] =
             IF items = <<>>
             THEN [@ EXCEPT !.pc = "done", !.user_id = who.user_id,
                            !.authorization = cred.authorization, !.code = 400]
             ELSE [@ EXCEPT !.pc = "posting", !.user_id = who.user_id,
                            !.authorization = cred.authorization,
                            !.order_items = OrderItems(items),
                            !.total = calculate_cart_total(items)]]
       /\ UNCHANGED <<orders_db, clock, next_id, pc, del_task, tasks, proc_writes,
                      proc_posts, cancel_at, found_cancelled, requests, failed_posts, next_item>>

\* The headers of the POST of a checkout (cart-service main.py:350-352)
CheckoutHeaders(c) ==
    [x_user_id |-> checkouts[c].user_id, authorization |-> checkouts[c].authorization]

\* The POST of a checkout reaches the order service, which creates the
\* order; its 2xx response then reaches the cart service, or is lost on the
\* way (a transport error for the cart service).
OrderServiceCreates(c, lost) ==
    /\ checkouts[c].pc = "posting"
    /\ CreateOrderFor(CheckoutHeaders(c),
                      [items |-> checkouts[c].order_items, total |-> checkouts[c].total])
    /\ checkouts' = [checkouts EXCEPT ![c] =
          [@ EXCEPT !.pc = "answered",
                    !.answer = IF lost THEN "RequestError" ELSE "2xx"]]
    /\ UNCHANGED <<carts_db, next_item>>

\* The POST of a checkout fails without an order: the order service answers
\* an error status, or the request does not get through.
OrderServiceFails(c, answer) ==
    /\ checkouts[c].pc = "posting"
    /\ answer \in {"non2xx", "RequestError"}
    /\ checkouts' = [checkouts EXCEPT ![c] = [@ EXCEPT !.pc = "answered", !.answer = answer]]
    /\ UNCHANGED <<orders_db, clock, next_id, pc, del_task, tasks, proc_writes,
                   proc_posts, cancel_at, found_cancelled, requests, failed_posts, carts_db, next_item>>

\* CheckoutResume emptying the cart before it looks at the response
CheckoutResumeClearsFirst(c) ==
    /\ checkouts[c].pc = "answered"
    /\ carts_db' = [carts_db EXCEPT ![checkouts[c].user_id].items = <<>>]
    /\ checkouts' = [checkouts EXCEPT ![c] =
          [@ EXCEPT !.pc = "done",
                    !.code = CASE checkouts[c].answer = "2xx" -> 200
                               [] checkouts[c].answer = "non2xx" -> 500
                               [] OTHER -> 503]]
    /\ UNCHANGED <<orders_db, clock, next_id, pc, del_task, tasks, proc_writes,
                   proc_posts, cancel_at, found_cancelled, requests, failed_posts, next_item>>

\* checkout, cart-service main.py:359-380, from the end of its POST: after a
\* 2xx response the cart is emptied and the order returned; an error status
\* is passed on and a transport error becomes 503, the cart left alone.
CheckoutResume(c) ==
    /\ checkouts[c].pc = "answered"
    /\ carts_db' = IF checkouts[c].answer = "2xx"
                   THEN [carts_db EXCEPT ![checkouts[c].user_id].items = <<>>]
                   ELSE carts_db
    /\ checkouts' = [checkouts EXCEPT ![c] =
          [@ EXCEPT !.pc = "done",
                    !.code = CASE checkouts[c].answer = "2xx" -> 200
                               [] checkouts[c].answer = "non2xx" -> 500
                               [] OTHER -> 503]]
    /\ UNCHANGED <<orders_db, clock, next_id, pc, del_task, tasks, proc_writes,
                   proc_posts, cancel_at, found_cancelled, requests, failed_posts, next_item>>

AddItem ==
    \E cred \in CartCreds, product_id \in Products, quantity \in Quantities,
       outcome \in ProductOutcomes : AddToCart(cred, product_id, quantity, outcome)

Checkout == \E c \in CheckoutIds, cred \in CartCreds : CheckoutStart(c, cred)

OrderService ==
    \E c \in CheckoutIds :
        \/ \E lost \in BOOLEAN : OrderServiceCreates(c, lost)
        \/ \E answer \in {"non2xx", "RequestError"} : OrderServiceFails(c, answer)

CheckoutAnswer == \E c \in CheckoutIds : CheckoutResume(c)

Next ==
    \/ Create
    \/ Get
    \/ List
    \/ Cancel
    \/ Override
    \/ Processor
    \/ DeferredDelete
    \/ Notifier

Spec == Init /\ [][Next]_vars

\* The automatic path: the administrator override is never called.
NextAuto ==
    \/ Create
    \/ Get
    \/ List
    \/ Cancel
    \/ Processor
    \/ DeferredDelete
    \/ Notifier

SpecAuto == Init /\ [][NextAuto]_vars

\* The happy path: neither CancelOrder nor the override is ever called.
NextHappy ==
    \/ Create
    \/ Get
    \/ List
    \/ Processor
    \/ DeferredDelete

\* The event loop resumes every task whose sleep or request has ended.
Fairness ==
    \A o \in OrderIds : WF_vars(ProcStep(o)) /\ WF_vars(delete_order_after_delay(o))

FairSpec == Spec /\ Fairness

FairHappy == Init /\ [][NextHappy]_vars /\ Fairness

\* The cart service with the order service behind it: carts are filled and
\* checked out, the orders are created by POST /orders/ of the checkouts.
NextCart ==
    \/ AddItem
    \/ Checkout
    \/ OrderService
    \/ CheckoutAnswer

SpecCart == Init /\ [][NextCart]_vars

\* The requests that resolve an identity, with every shape of credentials
\* (the background tasks of the orders do not look at identities)
CreateAny == \E cred \in AllCreds, body \in Bodies : CreateOrder(cred, body)

GetAny == \E o \in OrderIds, cred \in AllCreds, admin \in BOOLEAN : GetOrder(o, cred, admin)

ListAny == \E cred \in AllCreds, admin \in BOOLEAN : ListOrders(cred, admin)

CancelAny == \E o \in OrderIds, cred \in AllCreds, admin \in BOOLEAN :
                 CancelOrder(o, cred, admin)

NextIdentity ==
    \/ CreateAny
    \/ GetAny
    \/ ListAny
    \/ CancelAny
    \/ Notifier

SpecIdentity == Init /\ [][NextIdentity]_vars

\* The automatic path with the outcomes of the processors' POSTs recorded
InitWatched == Start /\ failed_posts = [o \in OrderIds |-> 0]

SpecWatched == InitWatched /\ [][NextAuto]_vars

-----------------------------------------------------------------------------
Status(o) == orders_db[o].status

HappyPath == <<"PROCESSING", "SHIPPING", "DELIVERED">>

IsPrefix(s, t) == Len(s) <= Len(t) /\ \A i \in 1..Len(s) : s[i] = t[i]

\* C1: once the stored status of an order is CANCELLED, no step of its
\* process_order task changes it (or removes the order), in every interleaving
\* with CancelOrder and the override.
C1_CancelledSticks ==
    [][\A o \in OrderIds :
          (ProcStep(o) /\ InDb(o) /\ Status(o) = "CANCELLED")
              => (o \in DOMAIN orders_db' /\ orders_db'[o].status = "CANCELLED")]_vars

\* A processor passed its first check while its order was CANCELLED.
C1_Witness ==
    \E o \in OrderIds :
        /\ InDb(o) /\ Status(o) = "CANCELLED"
        /\ pc[o] = "sleep2" /\ proc_writes[o] = <<>>

\* The status changes of the automatic path
AutoChanges ==
    {<<"CREATED", "PROCESSING">>, <<"PROCESSING", "SHIPPING">>,
     <<"SHIPPING", "DELIVERED">>,
     <<"CREATED", "CANCELLED">>, <<"PROCESSING", "CANCELLED">>,
     <<"SHIPPING", "CANCELLED">>}

\* C2: when the override is never called, every change of an order's stored
\* status is a step of CREATED -> PROCESSING -> SHIPPING -> DELIVERED or a
\* change to CANCELLED from CREATED, PROCESSING or SHIPPING.
C2_AutoMonotone ==
    [][\A o \in OrderIds :
          (InDb(o) /\ o \in DOMAIN orders_db' /\ orders_db'[o].status # Status(o))
              => <<Status(o), orders_db'[o].status>> \in AutoChanges]_vars

\* An order went the whole path, and another was cancelled while SHIPPING.
C2_Witness ==
    /\ \E o \in OrderIds : proc_writes[o] = HappyPath
    /\ \E o \in OrderIds :
          InDb(o) /\ Status(o) = "CANCELLED" /\ proc_writes[o] = <<"PROCESSING", "SHIPPING">>

\* C3: when CancelOrder succeeds before the first dwell interval of the
\* processor has elapsed and the override is never called, the status is
\* CANCELLED in every later state and the processor never writes.
C3_EarlyCancelFinal ==
    \A o \in OrderIds :
        (cancel_at[o].pc \in {"start", "sleep1"} /\ cancel_at[o].code = 200)
            => (InDb(o) /\ Status(o) = "CANCELLED" /\ proc_writes[o] = <<>>
                /\ del_task[o] = "none")

\* The processor ran to its end on an order cancelled during its first sleep.
C3_Witness ==
    \E o \in OrderIds :
        cancel_at[o] = [pc |-> "sleep1", code |-> 200] /\ pc[o] = "done"

\* The statuses an order has held, given the writes of its processor alone
StatusPath(o) == <<"CREATED">> \o proc_writes[o]

\* C4: on the happy path (no CancelOrder, no override) and under fair
\* scheduling of the processor, the stored status runs through CREATED,
\* PROCESSING, SHIPPING, DELIVERED in that order and every created order
\* eventually is DELIVERED.
C4_HappyPathDelivers ==
    /\ [](\A o \in OrderIds :
             /\ IsPrefix(proc_writes[o], HappyPath)
             /\ InDb(o) => Status(o) = StatusPath(o)[Len(StatusPath(o))])
    /\ \A o \in OrderIds :
          (pc[o] = "start") ~> (InDb(o) /\ Status(o) = "DELIVERED")

\* An order of the happy path is DELIVERED after three writes of its processor.
C4_Witness ==
    \E o \in OrderIds :
        InDb(o) /\ Status(o) = "DELIVERED" /\ proc_writes[o] = HappyPath

\* C5: process_order attempts one notification for each transition it
\* performs, with the status of that transition, in the order of the
\* transitions; a processor that ends without any cancel request on its order
\* (and no override) has made exactly the three attempts PROCESSING, SHIPPING,
\* DELIVERED, and none for CREATED.
C5_OneNotifyPerTransition ==
    \A o \in OrderIds :
        /\ proc_posts[o] = proc_writes[o]
        /\ IsPrefix(proc_posts[o], HappyPath)
        /\ (pc[o] = "done" /\ cancel_at[o] = NoCancel) => proc_posts[o] = HappyPath

\* A processor has ended after three attempts; another made one attempt
\* before its order was cancelled.
C5_Witness ==
    /\ \E o \in OrderIds :
          pc[o] = "done" /\ cancel_at[o] = NoCancel /\ proc_posts[o] = HappyPath
    /\ \E o \in OrderIds :
          pc[o] = "done" /\ cancel_at[o].code = 200 /\ proc_posts[o] = <<"PROCESSING">>

\* The requests a client with a resolved identity can make on an order
Resolved == {cred \in Creds : get_user_id(cred).code = 200}

\* GetOrder answers NotFound to every identified requester
Gone(o) ==
    /\ ~InDb(o)
    /\ \A cred \in Resolved, admin \in BOOLEAN : get_order(o, cred, admin).code = 404

\* C6: after process_order has written DELIVERED, the deferred deletion
\* eventually runs; once it has run the order is not in the store and
\* GetOrder for its id returns 404, for ever.
C6_DeliveredIsDeleted ==
    /\ [](\A o \in OrderIds : del_task[o] = "done" => Gone(o))
    /\ \A o \in OrderIds :
          (Len(proc_writes[o]) > 0 /\ proc_writes[o][Len(proc_writes[o])] = "DELIVERED")
              ~> (del_task[o] = "done")

\* The deferred deletion of a delivered order has run.
C6_Witness ==
    \E o \in OrderIds :
        del_task[o] = "done" /\ proc_writes[o] = HappyPath /\ Gone(o)

\* C7: CreateOrder with an empty items list is rejected with InvalidOrder: no
\* order without items is ever in the store and no processor exists for one.
C7_EmptyOrderRejected ==
    \A o \in OrderIds :
        (InDb(o) /\ pc[o] # "none") => orders_db[o].items # <<>>

\* C8: CancelOrder by the owner or an administrator on an order that is
\* DELIVERED or CANCELLED answers 400 naming the current status, leaves the
\* store (status and updated_at included) as it is and starts no
\* notification; so does a second cancel of a cancelled order.
C8_CancelTerminalRejected ==
    \A o \in OrderIds, cred \in Creds, admin \in BOOLEAN :
        (CancelAuthorised(o, cred, admin) /\ Status(o) \in {"DELIVERED", "CANCELLED"})
            => LET r == cancel_order(o, cred, admin) IN
               /\ r.code = 400
               /\ r.detail = Status(o)
               /\ r.db = orders_db
               /\ r.tasks = tasks

\* The first cancel of an order was rejected: it came after the DELIVERED
\* write of the processor; another order was cancelled and can be cancelled
\* again by its owner only to be rejected.
C8_Witness ==
    /\ \E o \in OrderIds :
          /\ cancel_at[o] = [pc |-> "notify3", code |-> 400]
          /\ InDb(o) /\ Status(o) = "DELIVERED"
    /\ \E o \in OrderIds, cred \in Creds :
          /\ cancel_at[o].code = 200
          /\ InDb(o) /\ Status(o) = "CANCELLED"
          /\ CancelAuthorised(o, cred, FALSE)

\* C9: a CancelOrder step by the owner or an administrator on an order that
\* is CREATED, PROCESSING or SHIPPING sets the status to CANCELLED, sets
\* updated_at to the current time, adds exactly one notification task with
\* status CANCELLED, and neither runs that task nor touches anything else of
\* the order or of the processor.
C9_CancelSucceeds ==
    [][\A o \in OrderIds, cred \in Creds, admin \in BOOLEAN :
          (/\ requests' # requests
           /\ InDb(o)
           /\ Status(o) \in {"CREATED", "PROCESSING", "SHIPPING"}
           /\ CancelOrder(o, cred, admin))
              => /\ cancel_order(o, cred, admin).code = 200
                 /\ orders_db' = [orders_db EXCEPT ![o] =
                                     [@ EXCEPT !.status = "CANCELLED",
                                               !.updated_at = clock[o]]]
                 /\ orders_db'[o].updated_at > orders_db[o].updated_at
                 /\ tasks' = tasks (+) SetToBag({<<o, "CANCELLED">>})
                 /\ UNCHANGED <<pc, del_task, proc_writes, proc_posts>>]_vars

\* An order was cancelled while SHIPPING; its notification has not run yet.
C9_Witness ==
    \E o \in OrderIds :
        /\ cancel_at[o] = [pc |-> "sleep3", code |-> 200]
        /\ InDb(o) /\ Status(o) = "CANCELLED"
        /\ orders_db[o].updated_at > orders_db[o].created_at
        /\ BagIn(<<o, "CANCELLED">>, tasks)

\* The first cancel request on the order (one that reached the status check)
\* came while a transition of the processor was in progress: after the check
\* and the write of the transition, before the end of its notification.
CancelInTransition(o) == cancel_at[o].pc \in {"notify1", "notify2", "notify3"}

\* ... or came before the next check of the processor.
CancelBeforeCheck(o) == cancel_at[o].pc \in {"start", "sleep1", "sleep2", "sleep3"}

\* The status the transition in progress at the first cancel had written
TargetAtCancel(o) ==
    CASE cancel_at[o].pc = "notify1" -> "PROCESSING"
      [] cancel_at[o].pc = "notify2" -> "SHIPPING"
      [] cancel_at[o].pc = "notify3" -> "DELIVERED"

\* The processor has ended and its order is still in the store.
Final(o) == pc[o] = "done" /\ InDb(o)

\* C10 as stated: without overrides, the final status is CANCELLED when the
\* check came after the cancel, and the target of the transition in progress
\* when the check came before the cancel.
C10_TransitionWins ==
    \A o \in OrderIds :
        Final(o) =>
            /\ CancelBeforeCheck(o) => Status(o) = "CANCELLED"
            /\ CancelInTransition(o) => Status(o) = TargetAtCancel(o)

\* C10, amended: without overrides, the final status is CANCELLED when the
\* check came after the cancel; when the check came before the cancel, the
\* write of the transition was made with it, the cancel is judged against the
\* written status, and the final status is CANCELLED for the transitions to
\* PROCESSING and SHIPPING and DELIVERED (the cancel is rejected with 400) for
\* the transition to DELIVERED.
C10_CancelRace ==
    \A o \in OrderIds :
        Final(o) =>
            /\ CancelBeforeCheck(o) => (Status(o) = "CANCELLED" /\ cancel_at[o].code = 200)
            /\ CancelInTransition(o) =>
                  IF TargetAtCancel(o) = "DELIVERED"
                  THEN Status(o) = "DELIVERED" /\ cancel_at[o].code = 400
                  ELSE Status(o) = "CANCELLED" /\ cancel_at[o].code = 200

\* A processor has ended on an order that was cancelled during the
\* notification of its PROCESSING transition.
C10_Witness ==
    \E o \in OrderIds :
        Final(o) /\ cancel_at[o] = [pc |-> "notify1", code |-> 200]

\* C11: SetStatus without the admin flag answers 403 for every order id, in
\* the store or not, and every status value, recognized or not; it leaves the
\* store (every status and updated_at) as it is and adds no notification task.
C11_NonAdminForbidden ==
    \A o \in OrderIds, status \in StatusInputs :
        LET r == update_order_status(o, status, FALSE) IN
        /\ r.code = 403
        /\ r.db = orders_db
        /\ r.tasks = tasks

\* One order is in the store and another id is not; on the first the same
\* request with the admin flag would be carried out.
C11_Witness ==
    \E o, x \in OrderIds :
        /\ InDb(o) /\ ~InDb(x)
        /\ update_order_status(o, "SHIPPING", FALSE).code = 403
        /\ update_order_status(x, "SHIPPING", FALSE).code = 403
        /\ update_order_status(o, "SHIPPING", TRUE).code = 200

\* C12: SetStatus with the admin flag on an order in the store, with any of
\* the five recognized values, succeeds whatever the current status: the step
\* sets the status to the requested value, sets updated_at to the current
\* time, adds exactly one notification task with that status and touches
\* nothing else of the order or of its processor.
C12_OverrideAlwaysAllowed ==
    /\ [](\A o \in OrderIds, status \in ORDER_STATUSES :
             InDb(o) => update_order_status(o, status, TRUE).code = 200)
    /\ [][\A o \in OrderIds, status \in ORDER_STATUSES :
             (/\ requests' # requests
              /\ InDb(o)
              /\ SetStatus(o, status, TRUE))
                 => /\ orders_db' = [orders_db EXCEPT ![o] =
                                        [@ EXCEPT !.status = status,
                                                  !.updated_at = clock[o]]]
                    /\ orders_db'[o].updated_at > orders_db[o].updated_at
                    /\ tasks' = tasks (+) SetToBag({<<o, status>>})
                    /\ UNCHANGED <<pc, del_task, proc_writes, proc_posts>>]_vars

\* An order the processor delivered was set to CANCELLED and then to CREATED
\* by the administrator; both notifications are still to run.
C12_Witness ==
    \E o \in OrderIds :
        /\ proc_writes[o] = HappyPath
        /\ InDb(o) /\ Status(o) = "CREATED"
        /\ BagIn(<<o, "CANCELLED">>, tasks)
        /\ BagIn(<<o, "CREATED">>, tasks)

\* A request that carries the X-User-ID header alone
XUser(u) == [x_user_id |-> u, authorization |-> <<>>]

\* C13: for every requester with a resolved identity, with or without the
\* admin flag, GetOrder and CancelOrder on an id that is not in the store
\* answer 404; on an order in the store, a requester who is neither its owner
\* nor an administrator gets 403 from both, and the store and the
\* notification tasks are left as they are.
C13_NotFoundThenForbidden ==
    \A o \in OrderIds, cred \in Resolved, admin \in BOOLEAN :
        LET g == get_order(o, cred, admin)
            c == cancel_order(o, cred, admin)
        IN /\ ~InDb(o) => (g.code = 404 /\ c.code = 404)
           /\ (InDb(o) /\ orders_db[o].user_id # get_user_id(cred).user_id /\ ~admin)
                 => /\ g.code = 403 /\ c.code = 403
                    /\ g.db = orders_db /\ c.db = orders_db
                    /\ g.tasks = tasks /\ c.tasks = tasks
           /\ (g.code = 200) = (c.code \in {200, 400})

\* An order of alice that she could cancel is refused to bob, while the id of
\* a delivered and deleted order answers 404 to both of them.
C13_Witness ==
    \E o, x \in OrderIds :
        /\ InDb(o) /\ orders_db[o].user_id = "alice"
        /\ cancel_order(o, XUser("alice"), FALSE).code = 200
        /\ cancel_order(o, XUser("bob"), FALSE).code = 403
        /\ get_order(o, XUser("bob"), FALSE).code = 403
        /\ del_task[x] = "done" /\ ~InDb(x)
        /\ get_order(x, XUser("bob"), FALSE).code = 404
        /\ cancel_order(x, XUser("alice"), TRUE).code = 404

\* C14: in every reachable state ListOrders answers a requester with a
\* resolved identity with exactly the orders in the store when the admin flag
\* is set, and exactly the orders in the store whose user_id is the resolved
\* identity otherwise; a non-admin never receives an order of another user,
\* and the list holds exactly the orders GetOrder would show the requester.
C14_ListVisibility ==
    \A cred \in Resolved, admin \in BOOLEAN :
        LET r == get_orders(cred, admin) IN
        /\ r.code = 200
        /\ r.db = orders_db /\ r.tasks = tasks
        /\ \A o \in OrderIds :
              /\ (o \in r.orders) =
                    (InDb(o) /\ (admin \/ orders_db[o].user_id = get_user_id(cred).user_id))
              /\ (o \in r.orders) = (get_order(o, cred, admin).code = 200)

\* Two orders of two users are in the store: each user is shown his own
\* order alone and the administrator both.
C14_Witness ==
    \E o, x \in OrderIds :
        /\ InDb(o) /\ orders_db[o].user_id = "alice"
        /\ InDb(x) /\ orders_db[x].user_id = "bob"
        /\ get_orders(XUser("alice"), FALSE).orders = {o}
        /\ get_orders(XUser("bob"), FALSE).orders = {x}
        /\ get_orders(XUser("bob"), TRUE).orders = {o, x}

\* C15: in every reachable state every order in the store has one of the
\* five recognized statuses; SetStatus with any other value changes neither
\* the store nor the notification tasks, and answers 400 when the admin flag
\* is set and the order is in the store.
C15_StatusRecognized ==
    /\ \A o \in OrderIds : InDb(o) => Status(o) \in ORDER_STATUSES
    /\ \A o \in OrderIds, status \in StatusInputs \ ORDER_STATUSES, admin \in BOOLEAN :
          LET r == update_order_status(o, status, admin) IN
          /\ r.code # 200
          /\ r.db = orders_db
          /\ r.tasks = tasks
          /\ (admin /\ InDb(o)) => r.code = 400

\* The administrator has set the status of an order the processor had not
\* touched yet; an unrecognized value for the same order is refused.
C15_Witness ==
    \E o \in OrderIds :
        /\ InDb(o) /\ Status(o) = "SHIPPING" /\ proc_writes[o] = <<>>
        /\ update_order_status(o, "BOGUS", TRUE).code = 400
        /\ update_order_status(o, "created", TRUE).code = 400

\* Where process_order goes on after the POST of a transition has ended
AfterPost(p) ==
    CASE p = "notify1" -> "sleep2"
      [] p = "notify2" -> "sleep3"
      [] p = "notify3" -> "done"

\* C16: whatever the outcome of each POST of process_order (a 2xx response,
\* another response, a transport error), the step that ends the POST takes
\* the processor to its next sleep (after DELIVERED: schedules the deferred
\* deletion) and neither writes, nor POSTs again, nor touches the store; so a
\* processor whose order nobody cancelled ends after the writes PROCESSING,
\* SHIPPING, DELIVERED and one POST for each, with the deletion scheduled,
\* however many of its POSTs failed.
C16_NotifyFailureIgnored ==
    /\ [](\A o \in OrderIds :
             /\ proc_posts[o] = proc_writes[o]
             /\ failed_posts[o] <= Len(proc_posts[o])
             /\ (pc[o] = "done" /\ cancel_at[o] = NoCancel)
                   => (proc_writes[o] = HappyPath /\ del_task[o] # "none"))
    /\ [][\A o \in OrderIds, outcome \in NotifyOutcomes :
             (ProcNotified(o, outcome) \/ ProcScheduleDelete(o, outcome))
                 => /\ pc'[o] = AfterPost(pc[o])
                    /\ pc[o] = "notify3" => del_task'[o] = "sleeping"
                    /\ UNCHANGED <<orders_db, tasks, proc_writes, proc_posts>>]_vars

\* All three POSTs of a processor failed; it made its three writes and the
\* deferred deletion is scheduled.
C16_Witness ==
    \E o \in OrderIds :
        /\ failed_posts[o] = 3
        /\ pc[o] = "done" /\ proc_writes[o] = HappyPath
        /\ del_task[o] = "sleeping"
        /\ InDb(o) /\ Status(o) = "DELIVERED"

\* A request that carries neither X-User-ID nor Authorization
Anonymous == [x_user_id |-> None, authorization |-> <<>>]

\* C17: a request without X-User-ID and without Authorization is rejected by
\* CreateOrder, GetOrder, ListOrders, SetStatus and CancelOrder alike, with or
\* without the admin flag, and changes neither the store nor the
\* notification tasks.
C17_IdentityRequired ==
    \A o \in OrderIds, admin \in BOOLEAN, status \in StatusInputs, body \in Bodies :
        \A r \in {create_order(o, Anonymous, body),
                   get_order(o, Anonymous, admin),
                   get_orders(Anonymous, admin),
                   cancel_order(o, Anonymous, admin),
                   put_order_status(o, Anonymous, status, admin)} :
            /\ r.code # 200
            /\ r.db = orders_db
            /\ r.tasks = tasks

\* The subject of the tokens that decode under SECRET_KEY with a subject
TokenSubject(token) == IF token = "h.alice.s" THEN "alice" ELSE None

\* C18: the identity get_user_id resolves.  A non-empty X-User-ID is returned
\* verbatim whatever Authorization holds; otherwise an Authorization header of
\* the form `Bearer <token>` resolves to the subject of the token when it
\* decodes with one and to the raw token when it does not decode or has no
\* subject, and is never rejected; only a missing Authorization header or one
\* of another form is rejected (401).  CreateOrder stores what is resolved.
C18_IdentityResolver ==
    /\ \A cred \in AllCreds :
          LET r == get_user_id(cred)
              auth == cred.authorization
          IN IF cred.x_user_id \notin {None, ""}
             THEN r = [code |-> 200, user_id |-> cred.x_user_id]
             ELSE IF Len(auth) = 2 /\ auth[1] \in {"Bearer", "bearer"}
             THEN /\ r.code = 200
                  /\ r.user_id = IF TokenSubject(auth[2]) # None
                                 THEN TokenSubject(auth[2]) ELSE auth[2]
             ELSE r.code = 401
    /\ \A o \in OrderIds :
          InDb(o) => orders_db[o].user_id \in {"alice", "bob", BadToken, NoSubToken, "opaque"}

\* Orders created with a bearer token that does not decode and with one
\* that has no subject are stored under the raw tokens, and their creators
\* read them back with the same credentials.
C18_Witness ==
    \E o, x \in OrderIds :
        /\ InDb(o) /\ orders_db[o].user_id = BadToken
        /\ InDb(x) /\ orders_db[x].user_id = NoSubToken
        /\ get_order(o, [x_user_id |-> None, authorization |-> <<"Bearer", BadToken>>],
                      FALSE).code = 200
        /\ get_order(x, [x_user_id |-> None, authorization |-> <<"Bearer", NoSubToken>>],
                      FALSE).code = 200

\* The users that may have a cart
CartUsers == {get_user_id(cred).user_id : cred \in CartCreds \cap Resolved}

\* C19: checkout empties the cart of its user exactly when the POST to the
\* order service came back with a success response.  The step that resumes
\* the handler empties the cart and answers 200 after a 2xx response, and
\* leaves the cart store alone and answers an error after an error status or
\* a transport error; no other step of a checkout changes the items of any
\* cart; a checkout of an empty cart answers 400 and ends at once, with no
\* POST and no order; and a cart only ever becomes empty in the resuming
\* step of a checkout of its user whose POST was answered 2xx.
C19_CheckoutClearsOnSuccess ==
    /\ [][\A c \in CheckoutIds :
             CheckoutResume(c) =>
                 IF checkouts[c].answer = "2xx"
                 THEN /\ CartItems(carts_db', checkouts[c].user_id) = <<>>
                      /\ checkouts'[c].code = 200
                      /\ \A u \in CartUsers \ {checkouts[c].user_id} :
                            CartItems(carts_db', u) = CartItems(carts_db, u)
                 ELSE /\ carts_db' = carts_db
                      /\ checkouts'[c].code \in {500, 503}]_vars
    /\ [][\A c \in CheckoutIds, cred \in CartCreds :
             CheckoutStart(c, cred) =>
                 /\ \A u \in CartUsers : CartItems(carts_db', u) = CartItems(carts_db, u)
                 /\ orders_db' = orders_db
                 /\ CartItems(carts_db, get_user_id(cred).user_id) = <<>>
                       => (checkouts'[c].pc = "done" /\ checkouts'[c].code = 400)
                 /\ CartItems(carts_db, get_user_id(cred).user_id) # <<>>
                       => checkouts'[c].pc = "posting"]_vars
    /\ [][OrderService => carts_db' = carts_db]_vars
    /\ [][\A u \in CartUsers :
             (CartItems(carts_db, u) # <<>> /\ CartItems(carts_db', u) = <<>>)
                 => \E c \in CheckoutIds :
                       /\ checkouts[c].pc = "answered" /\ checkouts[c].answer = "2xx"
                       /\ checkouts[c].user_id = u
                       /\ checkouts'[c].pc = "done"]_vars
    /\ [](\A c \in CheckoutIds :
             checkouts[c].code = 400
                 => (checkouts[c].order_items = <<>> /\ checkouts[c].answer = None))

\* One checkout succeeded: its order is in the store with the items of its
\* cart, which is now empty; another failed and the cart of its user still
\* holds its items.
C19_Witness ==
    \E c, d \in CheckoutIds, o \in OrderIds :
        /\ checkouts[c].pc = "done" /\ checkouts[c].code = 200
        /\ CartItems(carts_db, checkouts[c].user_id) = <<>>
        /\ InDb(o) /\ orders_db[o].items = checkouts[c].order_items
        /\ orders_db[o].items # <<>>
        /\ checkouts[d].pc = "done" /\ checkouts[d].code \in {500, 503}
        /\ OrderItems(CartItems(carts_db, checkouts[d].user_id)) = checkouts[d].order_items

\* C20: once a check of process_order has found its order CANCELLED, the
\* processor makes no further status write and no further POST, whatever
\* happens to the order afterwards (an administrator SetStatus away from
\* CANCELLED included).
C20_StopsWhenCancelled ==
    [][\A o \in OrderIds :
          found_cancelled[o]
              => (proc_writes'[o] = proc_writes[o] /\ proc_posts'[o] = proc_posts[o])]_vars

\* C21: the deferred deletion removes an order only when the order is still
\* DELIVERED at the end of the delay: every step that takes an order out of
\* the store finds it DELIVERED, so no CANCELLED order is ever removed.
C21_DeletesOnlyDelivered ==
    [][\A o \in OrderIds :
          (InDb(o) /\ o \notin DOMAIN orders_db') => Status(o) = "DELIVERED"]_vars

\* C22: whenever the stored status of an order is DELIVERED, however it was
\* reached, no step of its process_order task changes the status.
C22_DeliveredSticks ==
    [][\A o \in OrderIds :
          (ProcStep(o) /\ InDb(o) /\ Status(o) = "DELIVERED")
              => (o \in DOMAIN orders_db' /\ orders_db'[o].status = "DELIVERED")]_vars

\* The status changes of the processor on the graph
PathChanges ==
    {<<"CREATED", "PROCESSING">>, <<"PROCESSING", "SHIPPING">>,
     <<"SHIPPING", "DELIVERED">>}

\* C23: every status write of process_order starts from the immediate
\* predecessor on the graph: PROCESSING is written over CREATED, SHIPPING
\* over PROCESSING and DELIVERED over SHIPPING, in every interleaving with
\* CancelOrder and the administrator override.
C23_WritesFromPredecessor ==
    [][\A o \in OrderIds :
          (ProcStep(o) /\ proc_writes'[o] # proc_writes[o])
              => <<Status(o), orders_db'[o].status>> \in PathChanges]_vars

\* C24: an order that is DELIVERED and stays DELIVERED is eventually removed
\* by the deferred deletion, whichever path made it DELIVERED.  On a finite
\* run: once the process_order task of a stored DELIVERED order has ended,
\* the only task that can still remove the order, its deferred deletion, is
\* pending.
C24_DeliveredIsCollected ==
    \A o \in OrderIds :
        (InDb(o) /\ Status(o) = "DELIVERED" /\ pc[o] = "done")
            => del_task[o] = "sleeping"

\* The place of a status on the happy path
Rank(status) ==
    CASE status = "CREATED" -> 0
      [] status = "PROCESSING" -> 1
      [] status = "SHIPPING" -> 2
      [] status = "DELIVERED" -> 3
      [] OTHER -> 4

\* The positions of process_order and of the deferred deletion, in the order
\* in which one task passes through them
PcRank(p) ==
    CASE p = "none" -> 0
      [] p = "start" -> 1
      [] p = "sleep1" -> 2
      [] p = "notify1" -> 3
      [] p = "sleep2" -> 4
      [] p = "notify2" -> 5
      [] p = "sleep3" -> 6
      [] p = "notify3" -> 7
      [] p = "done" -> 8
DelRank(d) ==
    CASE d = "none" -> 0
      [] d = "sleeping" -> 1
      [] d = "done" -> 2

\* The writes of the processor of order o are in the order of the happy path,
\* each status at most once
WritesInOrder(o) ==
    \A i, j \in DOMAIN proc_writes[o] :
        i < j => Rank(proc_writes[o][i]) < Rank(proc_writes[o][j])

\* C25: the writes of one order's processor are strictly sequential: each of
\* PROCESSING, SHIPPING, DELIVERED is written at most once and none after a
\* later one; an order id has a processor exactly when it has been created,
\* that processor starts once and only moves forward through its blocks (a
\* block begins after the write of the block before it), and the deferred
\* deletion of an order id is scheduled at most once and runs at most once.
C25_SequentialWrites ==
    /\ [](\A o \in OrderIds :
              /\ WritesInOrder(o)
              /\ (pc[o] # "none") <=> (o < next_id)
              /\ del_task[o] # "none" => pc[o] = "done")
    /\ [][\A o \in OrderIds :
              /\ PcRank(pc'[o]) >= PcRank(pc[o])
              /\ (pc[o] = "none" /\ pc'[o] # "none") => (pc'[o] = "start" /\ o = next_id)
              /\ proc_writes'[o] # proc_writes[o]
                    => /\ Len(proc_writes'[o]) = Len(proc_writes[o]) + 1
                       /\ PcRank(pc'[o]) > PcRank(pc[o])
              /\ DelRank(del_task'[o]) >= DelRank(del_task[o])
              /\ DelRank(del_task'[o]) <= DelRank(del_task[o]) + 1]_vars

C25_Witness ==
    \E o \in OrderIds :
        /\ proc_writes[o] = <<"PROCESSING", "DELIVERED">>
        /\ pc[o] = "done" /\ del_task[o] = "done"

\* The notifications of the processor of order o that are in flight: the POST
\* has been sent and has not ended
Notifying(o) == pc[o] \in {"notify1", "notify2", "notify3"}

\* C26: in every transition of the processor the check, the store write and
\* the notification come in that order: a notification attempt with status S
\* is made in a step whose check passed and whose write has put S in the
\* store, so the stored status is S when the POST leaves.  A CancelOrder that
\* arrives while that POST is in flight is answered on the stored status
\* alone, as if no POST were in flight (200 for PROCESSING and SHIPPING), and
\* takes back neither the attempt nor the processor's place after it.
C26_CheckWriteNotify ==
    /\ [](\A o \in OrderIds, cred \in Creds :
              (Notifying(o) /\ CancelAuthorised(o, cred, FALSE))
                  => cancel_order(o, cred, FALSE).code
                         = IF Status(o) \in {"DELIVERED", "CANCELLED"} THEN 400 ELSE 200)
    /\ [][\A o \in OrderIds :
              /\ proc_posts'[o] # proc_posts[o]
                    => \E status \in ORDER_STATUSES :
                          /\ MayTransition(o)
                          /\ proc_posts'[o] = Append(proc_posts[o], status)
                          /\ proc_writes'[o] = Append(proc_writes[o], status)
                          /\ orders_db'[o].status = status
                          /\ Notifying(o)'
              /\ (Notifying(o) /\ cancel_at'[o] # cancel_at[o])
                    => /\ proc_posts'[o] = proc_posts[o]
                       /\ pc'[o] = pc[o]]_vars

C26_Witness ==
    \E o \in OrderIds :
        /\ cancel_at[o] = [pc |-> "notify2", code |-> 200]
        /\ proc_posts[o] = <<"PROCESSING", "SHIPPING">>
        /\ InDb(o) /\ Status(o) = "CANCELLED"
        /\ pc[o] = "sleep3"

\* The record of order o in a store, as a set: empty when o is not in it
RecordOf(db, o) == IF o \in DOMAIN db THEN {db[o]} ELSE {}

\* The fields of an order that are set at creation
Created(order) ==
    <<order.id, order.user_id, order.items, order.total, order.created_at>>

\* C27: once an order is in the store no step (of the processor, CancelOrder,
\* the override, a notification, a read) changes its id, user_id, items,
\* total or created_at: only status and updated_at change; one step changes,
\* adds or removes the record of at most one order; the reads leave the whole
\* store as it is.
C27_OnlyStatusChanges ==
    /\ [](\A o \in OrderIds, cred \in Creds, admin \in BOOLEAN :
              /\ get_order(o, cred, admin).db = orders_db
              /\ get_orders(cred, admin).db = orders_db)
    /\ [][/\ \A o \in OrderIds :
                (InDb(o) /\ o \in DOMAIN orders_db')
                    => Created(orders_db'[o]) = Created(orders_db[o])
          /\ \A o, x \in OrderIds :
                (RecordOf(orders_db', o) # RecordOf(orders_db, o)
                   /\ RecordOf(orders_db', x) # RecordOf(orders_db, x)) => o = x]_vars

C27_Witness ==
    \E o, x \in OrderIds :
        /\ InDb(o) /\ Status(o) = "CANCELLED" /\ proc_writes[o] = <<"PROCESSING">>
        /\ orders_db[o].items # <<>>
        /\ orders_db[o].updated_at > orders_db[o].created_at
        /\ InDb(x) /\ Status(x) = "CREATED"
        /\ orders_db[x].updated_at = orders_db[x].created_at

\* The processor of order o has written DELIVERED and the store still holds it
DeliveredWritten(o) ==
    /\ InDb(o) /\ Status(o) = "DELIVERED"
    /\ proc_writes[o] # <<>> /\ proc_writes[o][Len(proc_writes[o])] = "DELIVERED"

\* C28: the store write of a transition is never rolled back.  A step in
\* which a notification ends (of the processor or of a request) leaves the
\* store as it is; a step that is no client request changes a stored status
\* only by a processor write of a status later on the path than every status
\* the processor wrote before; a CancelOrder after the DELIVERED write of the
\* processor is answered 400 and changes nothing, and from that write on the
\* processor and the notifications leave the record DELIVERED until the
\* deferred deletion removes it (only an administrator override, a request
\* of its own, writes it in between).
C28_NoRollback ==
    /\ [](\A o \in OrderIds, cred \in Creds, admin \in BOOLEAN :
              (DeliveredWritten(o) /\ CancelAuthorised(o, cred, admin))
                  => /\ cancel_order(o, cred, admin).code = 400
                     /\ cancel_order(o, cred, admin).db = orders_db)
    /\ [][\A o \in OrderIds :
              /\ ((Notifying(o) /\ pc'[o] # pc[o])
                     \/ BagCardinality(tasks') < BagCardinality(tasks))
                    => orders_db' = orders_db
              /\ (InDb(o) /\ o \in DOMAIN orders_db' /\ requests' = requests
                     /\ orders_db'[o].status # Status(o))
                    => /\ proc_writes'[o] = Append(proc_writes[o], orders_db'[o].status)
                       /\ \A i \in DOMAIN proc_writes[o] :
                             Rank(proc_writes[o][i]) < Rank(orders_db'[o].status)
              /\ (DeliveredWritten(o) /\ RecordOf(orders_db', o) # RecordOf(orders_db, o))
                    => \/ o \notin DOMAIN orders_db'
                             /\ del_task[o] = "sleeping" /\ del_task'[o] = "done"
                       \/ o \in DOMAIN orders_db'
                             /\ requests' = requests + 1
                             /\ BagIn(<<o, orders_db'[o].status>>, tasks')]_vars

C28_Witness ==
    \E o \in OrderIds :
        /\ cancel_at[o] = [pc |-> "done", code |-> 400]
        /\ proc_writes[o] = HappyPath
        /\ del_task[o] = "done" /\ ~InDb(o)

\* C29: the user_id CreateOrder stores is the identity the resolver returns
\* for the same credential afterwards, whatever the shape of the credential:
\* in the state after a CreateOrder with credential cred, a request with cred
\* and without the admin flag resolves to the stored user_id, passes the
\* ownership check of GetOrder and of CancelOrder (200) and finds the order
\* in ListOrders.
C29_CreatorOwnsOrder ==
    [][\A o \in OrderIds, cred \in AllCreds, body \in Bodies :
          (o = next_id /\ CreateOrder(cred, body))
              => /\ orders_db'[o].user_id = get_user_id(cred).user_id
                 /\ (get_order(o, cred, FALSE).code = 200)'
                 /\ (cancel_order(o, cred, FALSE).code = 200)'
                 /\ (o \in get_orders(cred, FALSE).orders)']_vars

\* The items of the user's cart that a step takes out of it
RemovedItems(u) ==
    LET before == CartItems(carts_db, u)
        after == CartItems(carts_db', u)
    IN {before[i] : i \in {k \in DOMAIN before :
                              \A j \in DOMAIN after : after[j].id # before[k].id}}

\* C30: whatever add_to_cart requests of the same user run while a checkout
\* waits for the order service, every item the checkout takes out of the cart
\* when it resumes after a 2xx response is one of the line items it submitted
\* in its order: no item added during the wait is discarded.
C30_RemovesOnlySubmitted ==
    [][\A c \in CheckoutIds :
          (CheckoutResume(c) /\ checkouts[c].answer = "2xx")
              => \A item \in RemovedItems(checkouts[c].user_id) :
                    \E j \in DOMAIN checkouts[c].order_items :
                        checkouts[c].order_items[j] = OrderItems(<<item>>)[1]]_vars
====
